---- MODULE Spec2Model ----
(***************************************************************************)
(* Model of glance/registry/db/sqlalchemy/models.py: the ModelBase         *)
(* active-record helpers (all, count, find, find_by_str, str_id, save,     *)
(* delete, update, __setitem__) and the two mapped classes Image and       *)
(* ImageProperty, over a store holding the tables images and               *)
(* image_properties.                                                       *)
(*                                                                         *)
(* An in-memory instance is a function from the names of the attributes    *)
(* that have been set to their values, as a Python instance dictionary:    *)
(* an attribute that was never set is absent and reads as None.  A stored  *)
(* row is the same, a NULL column being absent.  Rows are never removed    *)
(* and ids are handed out in sequence, so a table is the sequence of its   *)
(* rows, row i having id i.                                                *)
(*                                                                         *)
(* The session comes from get_session(), which is not part of this file:  *)
(* the unit of work that save() flushes holds the instance being saved,   *)
(* and a call reads the clock once.  The store refuses what the schema    *)
(* declares: a NULL image_id, a second (image_id, key) and, when the      *)
(* engine enforces foreign keys, an image_id that names no image.         *)
(***************************************************************************)
EXTENDS Integers, Sequences, FiniteSets, TLC

VARIABLES mem, images, image_properties, now, last

vars == <<mem, images, image_properties, now, last>>

\* Bounds of the model.
MaxTime == 1
MaxUpdateKeys == 2

\* In-memory instances the callers hold, by class.
ImageObjs == {"imgA"}
PropObjs == {"propA", "propB"}
Objs == ImageObjs \cup PropObjs

ClassOf(o) == IF o \in ImageObjs THEN "Image" ELSE "ImageProperty"
Classes == {"Image", "ImageProperty"}

\* The instance dictionary of an object that holds no attribute.
Empty == [x \in {} |-> TRUE]

Has(e, k) == k \in DOMAIN e

\* setattr on the instance dictionary
Put(e, k, v) == [x \in (DOMAIN e) \cup {k} |-> IF x = k THEN v ELSE e[x]]

\* Values the callers pass.
TypeInputs == {"raw", "vhd"}
StatusInputs == {"available", "disabled", "bogus"}
KeyInputs == {"arch", "os"}
ImageIdInputs == {1, 2}

\* A string is a sequence of one-character strings.
DigitChars == <<"0", "1", "2", "3", "4", "5", "6", "7", "8", "9">>

DigitSet == {DigitChars[i] : i \in 1..10}

DigitVal(c) == (CHOOSE i \in 1..10 : DigitChars[i] = c) - 1

RECURSIVE Digits(_)
\* "%s" % n for a non-negative integer n
Digits(n) == IF n < 10 THEN <<DigitChars[n + 1]>>
             ELSE Append(Digits(n \div 10), DigitChars[(n % 10) + 1])

\* __prefix__ of the two mapped classes
Prefix(cls) == IF cls = "Image" THEN <<"i", "m", "g">>
               ELSE <<"i", "m", "g", "-", "p", "r", "o", "p">>

NoneChars == <<"N", "o", "n", "e">>

\* ModelBase.str_id: "%s-%s" % (self.__prefix__, self.id)
str_id(cls, e) ==
    Prefix(cls) \o <<"-">> \o (IF Has(e, "id") THEN Digits(e.id) ELSE NoneChars)

\* Variant of RPartitionTail that splits at the first '-' (str.partition).
PartitionTail(s) ==
    LET dashes == {i \in 1..Len(s) : s[i] = "-"}
    IN  IF dashes = {} THEN s
        ELSE LET p == CHOOSE i \in dashes : \A j \in dashes : i <= j
             IN  SubSeq(s, p + 1, Len(s))

\* str.rpartition('-')[2]: what follows the last '-', the whole string
\* when it has none
RPartitionTail(s) ==
    LET dashes == {i \in 1..Len(s) : s[i] = "-"}
    IN  IF dashes = {} THEN s
        ELSE LET p == CHOOSE i \in dashes : \A j \in dashes : j <= i
             IN  SubSeq(s, p + 1, Len(s))

RECURSIVE Strip(_)
\* surrounding blanks, which int() ignores
Strip(t) == IF Len(t) = 0 THEN t
            ELSE IF t[1] = " " THEN Strip(Tail(t))
            ELSE IF t[Len(t)] = " " THEN Strip(SubSeq(t, 1, Len(t) - 1))
            ELSE t

RECURSIVE DigitsValue(_)
DigitsValue(t) ==
    IF Len(t) = 0 THEN 0
    ELSE 10 * DigitsValue(SubSeq(t, 1, Len(t) - 1)) + DigitVal(t[Len(t)])

\* int(text): blanks around, an optional sign, then at least one digit;
\* anything else is a ValueError.
IntBody(t) == LET u == Strip(t)
              IN  IF Len(u) > 0 /\ u[1] \in {"+", "-"} THEN Tail(u) ELSE u

IntValid(t) == LET b == IntBody(t)
               IN  Len(b) > 0 /\ \A i \in 1..Len(b) : b[i] \in DigitSet

IntValue(t) == LET u == Strip(t)
                   v == DigitsValue(IntBody(t))
               IN  IF u[1] = "-" THEN 0 - v ELSE v

----------------------------------------------------------------------------
\* The store.

Table(cls) == IF cls = "Image" THEN images ELSE image_properties

\* session.query(cls).filter_by(deleted=deleted).all()
all(cls, deleted) == SelectSeq(Table(cls), LAMBDA r : r.deleted = deleted)

\* session.query(cls).filter_by(deleted=deleted).count()
count(cls, deleted) == Len(all(cls, deleted))

\* Variant of Matching that leaves the deleted filter out.
Matching_any_flag(cls, obj_id, deleted) ==
    SelectSeq(Table(cls), LAMBDA r : r.id = obj_id)

\* session.query(cls).filter_by(id=obj_id).filter_by(deleted=deleted)
Matching(cls, obj_id, deleted) ==
    SelectSeq(Table(cls), LAMBDA r : r.id = obj_id /\ r.deleted = deleted)

\* Variant of find that does not pass its deleted argument on.
find_default_filter(cls, obj_id, deleted) ==
    LET m == Matching(cls, obj_id, FALSE)
    IN  IF Len(m) = 0 THEN [res |-> "NotFound", rows |-> <<>>]
        ELSE [res |-> "ok", rows |-> <<m[1]>>]

\* find: .one() of the matching rows, NoResultFound turned into NotFound
find(cls, obj_id, deleted) ==
    LET m == Matching(cls, obj_id, deleted)
    IN  IF Len(m) = 0 THEN [res |-> "NotFound", rows |-> <<>>]
        ELSE IF Len(m) = 1 THEN [res |-> "ok", rows |-> m]
        ELSE [res |-> "MultipleResultsFound", rows |-> <<>>]

\* find_by_str: int(str_id.rpartition('-')[2]), then find
find_by_str(cls, s, deleted) ==
    LET t == RPartitionTail(s)
    IN  IF ~IntValid(t) THEN [res |-> "ValueError", rows |-> <<>>]
        ELSE find(cls, IntValue(t), deleted)

----------------------------------------------------------------------------
\* Validation on assignment.

\* Image.validate_type
validate_type(v) == v \in {"machine", "kernel", "ramdisk", "raw"}

\* Image.validate_status
validate_status(v) == v \in {"available", "pending", "disabled"}

\* whether the @validates hook of the class accepts the value for the key
Accepts(cls, k, v) ==
    IF cls = "Image" /\ k = "type" THEN validate_type(v)
    ELSE IF cls = "Image" /\ k = "status" THEN validate_status(v)
    ELSE TRUE

\* Variant of setitem that sets the attribute before it validates.
setitem_then_validate(cls, e, k, v) ==
    [res |-> IF Accepts(cls, k, v) THEN "ok" ELSE "Invalid", ent |-> Put(e, k, v)]

\* __setitem__ / setattr: the validator runs first and raises Invalid
\* before the attribute is set
setitem(cls, e, k, v) ==
    IF Accepts(cls, k, v) THEN [res |-> "ok", ent |-> Put(e, k, v)]
    ELSE [res |-> "Invalid", ent |-> e]

RECURSIVE update(_, _, _)
\* update: for k, v in values.iteritems(): self[k] = v, the items in the
\* order the dictionary yields them, stopping at the first that raises
update(cls, e, items) ==
    IF Len(items) = 0 THEN [res |-> "ok", ent |-> e, key |-> "-"]
    ELSE LET r == setitem(cls, e, items[1][1], items[1][2])
         IN  IF r.res = "ok" THEN update(cls, r.ent, Tail(items))
             ELSE [res |-> r.res, ent |-> r.ent, key |-> items[1][1]]

----------------------------------------------------------------------------
\* Flushing an instance to its table.

\* Column defaults applied by an INSERT to the columns left unset:
\* created_at (utcnow), deleted (False) and, for images, is_public (False).
\* updated_at has an onupdate only and stays NULL.
InsertDefaults(cls, e, t) ==
    LET a == IF Has(e, "created_at") THEN e ELSE Put(e, "created_at", t)
        b == IF Has(a, "deleted") THEN a ELSE Put(a, "deleted", FALSE)
    IN  IF cls = "Image" /\ ~Has(b, "is_public") THEN Put(b, "is_public", FALSE)
        ELSE b

\* Variant of Duplicates that looks at the live rows only.
Duplicates_live(tbl, r) ==
    \E i \in DOMAIN tbl : /\ tbl[i].id # r.id
                          /\ ~tbl[i].deleted
                          /\ tbl[i].image_id = r.image_id
                          /\ tbl[i].key = r.key

\* UniqueConstraint('image_id', 'key'): another row of image_properties
\* holds the pair of r, whatever its deleted flag
Duplicates(tbl, r) ==
    \E i \in DOMAIN tbl : /\ tbl[i].id # r.id
                          /\ tbl[i].image_id = r.image_id
                          /\ tbl[i].key = r.key

\* ForeignKey('images.id'): the row names an image that is stored
Dangling(r) == r.image_id \notin {images[i].id : i \in DOMAIN images}

\* What the store refuses.  image_id is nullable=False; the foreign key
\* is refused only by an engine that enforces it (fk).
Refused(cls, tbl, r, fk) ==
    /\ cls = "ImageProperty"
    /\ \/ ~Has(r, "image_id")
       \/ Duplicates(tbl, r)
       \/ fk /\ Dangling(r)

\* Variant of Flush whose UPDATE leaves updated_at alone (no onupdate).
Flush_no_onupdate(cls, tbl, e, t, fk) ==
    IF ~Has(e, "id")
    THEN LET r == Put(InsertDefaults(cls, e, t), "id", Len(tbl) + 1)
         IN  IF Refused(cls, tbl, r, fk)
             THEN [res |-> "IntegrityError", ent |-> e, tbl |-> tbl]
             ELSE [res |-> "ok", ent |-> r, tbl |-> Append(tbl, r)]
    ELSE IF Refused(cls, tbl, e, fk)
    THEN [res |-> "IntegrityError", ent |-> e, tbl |-> tbl]
    ELSE [res |-> "ok", ent |-> e, tbl |-> [tbl EXCEPT ![e.id] = e]]

\* session.add(self); session.flush() for an instance e of class cls at
\* time t.  An instance without id is INSERTed and receives the next id and
\* the column defaults; a stored one is UPDATEd when it differs from its
\* row, which refreshes updated_at (onupdate); otherwise nothing is written.
Flush(cls, tbl, e, t, fk) ==
    IF ~Has(e, "id")
    THEN LET r == Put(InsertDefaults(cls, e, t), "id", Len(tbl) + 1)
         IN  IF Refused(cls, tbl, r, fk)
             THEN [res |-> "IntegrityError", ent |-> e, tbl |-> tbl]
             ELSE [res |-> "ok", ent |-> r, tbl |-> Append(tbl, r)]
    ELSE IF e = tbl[e.id]
    THEN [res |-> "ok", ent |-> e, tbl |-> tbl]
    ELSE LET r == Put(e, "updated_at", t)
         IN  IF Refused(cls, tbl, r, fk)
             THEN [res |-> "IntegrityError", ent |-> e, tbl |-> tbl]
             ELSE [res |-> "ok", ent |-> r, tbl |-> [tbl EXCEPT ![e.id] = r]]

----------------------------------------------------------------------------
\* Operations.

\* What the last call was and how it ended: the operation, the instance or
\* class it was called on, "ok" or the exception raised and, for a query,
\* the id and deleted arguments and the number n returned (the count, the
\* number of rows, the id of the row found).
Outcome(op, o, res) ==
    [op |-> op, obj |-> o, res |-> res, id |-> 0, deleted |-> FALSE, n |-> 0]

QueryOutcome(op, cls, res, id, d, n) ==
    [op |-> op, obj |-> cls, res |-> res, id |-> id, deleted |-> d, n |-> n]

Constructed(o) == mem[o] # Empty

\* Keyword arguments of the constructors, in the order they are set.
ImageKwargs ==
    LET base == <<<<"name", "ubuntu">>, <<"size", 7>>, <<"location", "file:///ubuntu">>>>
        ts == {<<>>} \cup {<<<<"type", v>>>> : v \in TypeInputs}
        ss == {<<>>} \cup {<<<<"status", v>>>> : v \in StatusInputs}
    IN  {base \o t \o st : t \in ts, st \in ss}

PropKwargs ==
    LET ids == {<<>>} \cup {<<<<"image_id", i>>>> : i \in ImageIdInputs}
    IN  {i \o <<<<"key", k>>, <<"value", "x86">>>> : i \in ids, k \in KeyInputs}

Kwargs(cls) == IF cls = "Image" THEN ImageKwargs ELSE PropKwargs

\* Image(**kwargs) / ImageProperty(**kwargs): the declarative constructor
\* sets each keyword as an attribute, so the validators run; when one
\* raises, no instance comes into being.
Construct(o, kw) ==
    /\ ~Constructed(o)
    /\ LET r == update(ClassOf(o), Empty, kw)
       IN  /\ mem' = [mem EXCEPT ![o] = IF r.res = "ok" THEN r.ent ELSE Empty]
           /\ last' = Outcome("construct", o, r.res)
    /\ UNCHANGED <<images, image_properties, now>>

\* The tables after the table of cls became tbl.
StoreBecomes(cls, tbl) ==
    /\ images' = IF cls = "Image" THEN tbl ELSE images
    /\ image_properties' = IF cls = "Image" THEN image_properties ELSE tbl

\* Variant of save that does not hand the id and the defaults back to the
\* instance.
save_no_writeback(o, fk) ==
    /\ Constructed(o)
    /\ LET cls == ClassOf(o)
           f == Flush(cls, Table(cls), mem[o], now, fk)
       IN  /\ StoreBecomes(cls, f.tbl)
           /\ last' = Outcome("save", o, f.res)
    /\ UNCHANGED <<mem, now>>

\* ModelBase.save
save(o, fk) ==
    /\ Constructed(o)
    /\ LET cls == ClassOf(o)
           f == Flush(cls, Table(cls), mem[o], now, fk)
       IN  /\ mem' = [mem EXCEPT ![o] = f.ent]
           /\ StoreBecomes(cls, f.tbl)
           /\ last' = Outcome("save", o, f.res)
    /\ UNCHANGED now

\* Variant of delete that sets the two attributes and does not save.
delete_unsaved(o, fk) ==
    /\ Constructed(o)
    /\ mem' = [mem EXCEPT ![o] = Put(Put(mem[o], "deleted", TRUE), "deleted_at", now)]
    /\ last' = Outcome("delete", o, "ok")
    /\ UNCHANGED <<images, image_properties, now>>

\* Variant of delete that keeps a deleted_at that is already set.
delete_stamp_once(o, fk) ==
    /\ Constructed(o)
    /\ LET cls == ClassOf(o)
           at == IF Has(mem[o], "deleted_at") THEN mem[o].deleted_at ELSE now
           e == Put(Put(mem[o], "deleted", TRUE), "deleted_at", at)
           f == Flush(cls, Table(cls), e, now, fk)
       IN  /\ mem' = [mem EXCEPT ![o] = f.ent]
           /\ StoreBecomes(cls, f.tbl)
           /\ last' = Outcome("delete", o, f.res)
    /\ UNCHANGED now

\* ModelBase.delete: deleted = True, deleted_at = utcnow(), then save
delete(o, fk) ==
    /\ Constructed(o)
    /\ LET cls == ClassOf(o)
           e == Put(Put(mem[o], "deleted", TRUE), "deleted_at", now)
           f == Flush(cls, Table(cls), e, now, fk)
       IN  /\ mem' = [mem EXCEPT ![o] = f.ent]
           /\ StoreBecomes(cls, f.tbl)
           /\ last' = Outcome("delete", o, f.res)
    /\ UNCHANGED now

\* Items the callers assign after construction.
ImageItems == {<<"type", v>> : v \in TypeInputs}
              \cup {<<"status", v>> : v \in StatusInputs}
              \cup {<<"deleted", v>> : v \in BOOLEAN}

PropItems == {<<"key", v>> : v \in KeyInputs}

Items(cls) == IF cls = "Image" THEN ImageItems ELSE PropItems

\* The orders in which a dictionary of at most MaxUpdateKeys items over
\* distinct keys can yield its items.
RECURSIVE ItemSeqs(_, _)
ItemSeqs(items, n) ==
    IF n = 0 THEN {<<>>}
    ELSE LET shorter == ItemSeqs(items, n - 1)
         IN  shorter \cup
             {Append(q, it) : q \in {x \in shorter : Len(x) = n - 1},
                              it \in items}

DistinctKeys(q) == \A i, j \in 1..Len(q) : i # j => q[i][1] # q[j][1]

ImageValues == {q \in ItemSeqs(ImageItems, MaxUpdateKeys) : Len(q) > 0 /\ DistinctKeys(q)}

PropValues == {q \in ItemSeqs(PropItems, MaxUpdateKeys) : Len(q) > 0 /\ DistinctKeys(q)}

Values(cls) == IF cls = "Image" THEN ImageValues ELSE PropValues

\* ModelBase.__setitem__
SetItem(o, it) ==
    /\ Constructed(o)
    /\ LET r == setitem(ClassOf(o), mem[o], it[1], it[2])
       IN  /\ mem' = [mem EXCEPT ![o] = r.ent]
           /\ last' = Outcome("setitem", o, r.res)
    /\ UNCHANGED <<images, image_properties, now>>

\* ModelBase.update
Update(o, items) ==
    /\ Constructed(o)
    /\ LET r == update(ClassOf(o), mem[o], items)
       IN  /\ mem' = [mem EXCEPT ![o] = r.ent]
           /\ last' = Outcome("update", o, r.res)
    /\ UNCHANGED <<images, image_properties, now>>

\* datetime.datetime.utcnow() moves on
Tick ==
    /\ now < MaxTime
    /\ now' = now + 1
    /\ UNCHANGED <<mem, images, image_properties, last>>

\* Arguments of the queries.
IdInputs == 0..2

StrInputs == {Prefix(cls) \o <<"-">> \o Digits(i) : cls \in Classes, i \in 1..2}
             \cup {Prefix("Image") \o <<"-">> \o NoneChars,
                   <<"2">>, <<"i", "m", "g", "-">>, <<"i", "m", "g", "-", " ", "+", "1">>}

FoundId(r) == IF r.res = "ok" THEN r.rows[1].id ELSE 0

\* ModelBase.all
All(cls, d) ==
    /\ last' = QueryOutcome("all", cls, "ok", 0, d, Len(all(cls, d)))
    /\ UNCHANGED <<mem, images, image_properties, now>>

\* ModelBase.count
Count(cls, d) ==
    /\ last' = QueryOutcome("count", cls, "ok", 0, d, count(cls, d))
    /\ UNCHANGED <<mem, images, image_properties, now>>

\* ModelBase.find
Find(cls, obj_id, d) ==
    /\ LET r == find(cls, obj_id, d)
       IN  last' = QueryOutcome("find", cls, r.res, obj_id, d, FoundId(r))
    /\ UNCHANGED <<mem, images, image_properties, now>>

\* ModelBase.find_by_str
FindByStr(cls, s, d) ==
    /\ LET r == find_by_str(cls, s, d)
       IN  last' = QueryOutcome("find_by_str", cls, r.res, 0, d, FoundId(r))
    /\ UNCHANGED <<mem, images, image_properties, now>>

Init ==
    /\ mem = [o \in Objs |-> Empty]
    /\ images = <<>>
    /\ image_properties = <<>>
    /\ now = 0
    /\ last = Outcome("init", "-", "ok")

\* An image saved by an earlier unit of work.
StoredImage ==
    [id |-> 1, name |-> "ubuntu", type |-> "machine", size |-> 7,
     status |-> "available", is_public |-> FALSE, location |-> "file:///ubuntu",
     created_at |-> 0, deleted |-> FALSE]

InitProp ==
    /\ mem = [o \in Objs |-> Empty]
    /\ images = <<StoredImage>>
    /\ image_properties = <<>>
    /\ now = 0
    /\ last = Outcome("init", "-", "ok")

\* The mutations of the instances in objs, of class cls.
Mutations(objs, cls) ==
    \/ \E o \in objs : \E kw \in Kwargs(cls) : Construct(o, kw)
    \/ \E o \in objs, fk \in BOOLEAN : save(o, fk)
    \/ \E o \in objs, fk \in BOOLEAN : delete(o, fk)
    \/ \E o \in objs : \E it \in Items(cls) : SetItem(o, it)
    \/ \E o \in objs : \E q \in Values(cls) : Update(o, q)

\* The queries on class cls.
Queries(cls) ==
    \/ \E d \in BOOLEAN : All(cls, d)
    \/ \E d \in BOOLEAN : Count(cls, d)
    \/ \E i \in IdInputs, d \in BOOLEAN : Find(cls, i, d)
    \/ \E s \in StrInputs, d \in BOOLEAN : FindByStr(cls, s, d)

NextImage == Mutations(ImageObjs, "Image") \/ Queries("Image") \/ Tick

NextProp == Mutations(PropObjs, "ImageProperty") \/ Queries("ImageProperty")

\* A unit of work on one image, the clock running.
SpecImage == Init /\ [][NextImage]_vars

\* A unit of work on two image properties, at one reading of the clock,
\* over a store that holds an image.
SpecProp == InitProp /\ [][NextProp]_vars

NextAssign ==
    \/ \E o \in ImageObjs : \E kw \in ImageKwargs : Construct(o, kw)
    \/ \E o \in ImageObjs, fk \in BOOLEAN : save(o, fk)
    \/ \E o \in ImageObjs : \E it \in ImageItems : SetItem(o, it)
    \/ \E o \in ImageObjs : \E q \in ImageValues : Update(o, q)

\* Assignments to one image, saved now and then.
SpecAssign == Init /\ [][NextAssign]_vars

----------------------------------------------------------------------------
\* Properties.

\* k reads the same on the instances a and b
SameAttr(a, b, k) == (Has(a, k) <=> Has(b, k)) /\ (Has(a, k) => a[k] = b[k])

Ids(rows) == {rows[i].id : i \in DOMAIN rows}

\* ids of the stored rows of cls whose deleted flag is true
DeletedIds(cls) == {Table(cls)[i].id : i \in {j \in DOMAIN Table(cls) : Table(cls)[j].deleted}}

\* C1: with the default filter (deleted=False) all, count, find and
\* find_by_str never return or count a row whose stored deleted flag is
\* true, after whatever saves, deletes and updates; such a row is returned
\* only when the call passes deleted=True.
C1_DefaultFilterHidesDeleted ==
    \A cls \in Classes :
        /\ Ids(all(cls, FALSE)) \cap DeletedIds(cls) = {}
        /\ count(cls, FALSE) = Len(Table(cls)) - Cardinality(DeletedIds(cls))
        /\ \A i \in DeletedIds(cls) :
              /\ find(cls, i, FALSE).res = "NotFound"
              /\ find_by_str(cls, str_id(cls, Table(cls)[i]), FALSE).res = "NotFound"
              /\ find(cls, i, TRUE).res = "ok"
              /\ i \in Ids(all(cls, TRUE))
        /\ (last.obj = cls /\ last.op \in {"find", "find_by_str"}
              /\ last.res = "ok" /\ ~last.deleted)
           => last.n \notin DeletedIds(cls)
        /\ (last.obj = cls /\ last.op \in {"all", "count"} /\ ~last.deleted)
           => last.n = Len(Table(cls)) - Cardinality(DeletedIds(cls))

\* a default find has just failed on a soft-deleted property while another
\* property is stored and live
C1_Witness ==
    /\ last.op = "find" /\ last.obj = "ImageProperty"
    /\ last.res = "NotFound" /\ ~last.deleted
    /\ last.id \in DeletedIds("ImageProperty")
    /\ count("ImageProperty", FALSE) = 1

\* C2: after delete() returns on a saved entity, the instance has deleted
\* true and deleted_at set, it is absent from all() and count() drops by
\* one unless its row was deleted already, and its row is still stored:
\* find(id, deleted=True) returns it and the two counts add up as before.
C2_DeleteIsSoft ==
    [][\A o \in Objs :
        (last'.op = "delete" /\ last'.obj = o /\ last'.res = "ok" /\ Has(mem[o], "id"))
        => LET cls == ClassOf(o)
               id == mem[o].id
               was == Table(cls)[id].deleted
           IN  /\ mem'[o].deleted = TRUE
               /\ Has(mem'[o], "deleted_at")
               /\ id \notin Ids(all(cls, FALSE)')
               /\ count(cls, FALSE)' = count(cls, FALSE) - (IF was THEN 0 ELSE 1)
               /\ find(cls, id, TRUE)'.res = "ok"
               /\ find(cls, id, TRUE)'.rows[1] = mem'[o]
               /\ find(cls, id, TRUE)'.rows[1].deleted_at = mem'[o].deleted_at
               /\ count(cls, FALSE)' + count(cls, TRUE)'
                  = count(cls, FALSE) + count(cls, TRUE)
      ]_vars

\* delete() has returned on a property that had been saved before (its row
\* went through an UPDATE), next to a live one
C2_Witness ==
    /\ last.op = "delete" /\ last.res = "ok" /\ last.obj \in PropObjs
    /\ Has(mem[last.obj], "id")
    /\ Has(image_properties[mem[last.obj].id], "updated_at")
    /\ image_properties[mem[last.obj].id].deleted
    /\ Len(image_properties) = 2
    /\ count("ImageProperty", FALSE) = 1

\* C3: find(id, deleted=d) returns the stored row with that id and that
\* deleted flag when there is one and raises NotFound otherwise, so for an
\* id never saved and, with the default filter, for a soft-deleted one; a
\* find leaves the store as it was.
C3_FindOrNotFound ==
    [][\A cls \in Classes, i \in IdInputs, d \in BOOLEAN :
        (last'.op = "find" /\ last'.obj = cls /\ last'.id = i /\ last'.deleted = d)
        => LET T == Table(cls)
               r == find(cls, i, d)
           IN  /\ IF \E j \in DOMAIN T : T[j].id = i /\ T[j].deleted = d
                  THEN /\ last'.res = "ok" /\ last'.n = i
                       /\ r.res = "ok"
                       /\ r.rows = <<T[i]>>
                       /\ r.rows[1].id = i /\ r.rows[1].deleted = d
                  ELSE /\ last'.res = "NotFound" /\ last'.n = 0
                       /\ r.res = "NotFound" /\ r.rows = <<>>
               /\ UNCHANGED <<mem, images, image_properties>>
      ]_vars

\* find with the default filter has just raised NotFound for the id of a
\* soft-deleted property
C3_Witness ==
    /\ last.op = "find" /\ last.obj = "ImageProperty" /\ last.res = "NotFound"
    /\ ~last.deleted
    /\ last.id \in DOMAIN image_properties
    /\ image_properties[last.id].deleted
    /\ find("ImageProperty", 0, FALSE).res = "NotFound"

\* C4: find_by_str(s, deleted=d) ends as find(n, deleted=d), n being the
\* integer written after the last '-' of s, and fails when that is no
\* integer; so for a saved entity of either class find_by_str(e.str_id)
\* returns what find(e.id) returns, str_id being "img-<id>" and
\* "img-prop-<id>".
C4_FindByStrIsFind ==
    \A cls \in Classes, d \in BOOLEAN :
        /\ \A n \in IdInputs :
              /\ find_by_str(cls, <<"i", "m", "g", "-">> \o Digits(n), d) = find(cls, n, d)
              /\ find_by_str(cls, <<"i", "m", "g", "-", "p", "r", "o", "p", "-">> \o Digits(n), d)
                 = find(cls, n, d)
              /\ find_by_str(cls, Digits(n), d) = find(cls, n, d)
        /\ find_by_str(cls, <<"i", "m", "g", "-", " ", "+", "1">>, d) = find(cls, 1, d)
        /\ find_by_str(cls, <<"i", "m", "g", "-", "N", "o", "n", "e">>, d).res = "ValueError"
        /\ find_by_str(cls, <<"i", "m", "g", "-">>, d).res = "ValueError"
        /\ \A i \in DOMAIN Table(cls) :
              LET e == Table(cls)[i]
              IN  /\ str_id(cls, e) = (IF cls = "Image" THEN <<"i", "m", "g", "-">>
                                       ELSE <<"i", "m", "g", "-", "p", "r", "o", "p", "-">>)
                                      \o Digits(e.id)
                  /\ find_by_str(cls, str_id(cls, e), d) = find(cls, e.id, d)
                  /\ find_by_str(cls, str_id(cls, e), e.deleted).rows = <<e>>
        /\ (last.op = "find_by_str" /\ last.obj = cls /\ last.res = "ok")
           => find(cls, last.n, last.deleted).res = "ok"

\* find_by_str has just returned the second stored property
C4_Witness ==
    /\ last.op = "find_by_str" /\ last.obj = "ImageProperty" /\ last.res = "ok"
    /\ last.n = 2
    /\ Len(image_properties) = 2
    /\ str_id("ImageProperty", image_properties[2])
       = <<"i", "m", "g", "-", "p", "r", "o", "p", "-", "2">>

\* whether the claim lets the item be assigned to an image
Allowed(it) ==
    /\ it[1] = "type" => it[2] \in {"machine", "kernel", "ramdisk", "raw"}
    /\ it[1] = "status" => it[2] \in {"available", "pending", "disabled"}

\* C5: assigning to an image a type or a status outside its set, by
\* image[key] = value or through update(values), raises Invalid at once,
\* writes nothing to the store and leaves the field as it was; a value
\* inside the set is stored as given.
C5_InvalidAssignmentRaises ==
    [][\A o \in ImageObjs :
        /\ \A it \in ImageItems :
              SetItem(o, it)
              => IF Allowed(it)
                 THEN last'.res = "ok" /\ Has(mem'[o], it[1]) /\ mem'[o][it[1]] = it[2]
                 ELSE /\ last'.res = "Invalid"
                      /\ SameAttr(mem[o], mem'[o], it[1])
                      /\ UNCHANGED <<images, image_properties>>
        /\ \A q \in ImageValues :
              Update(o, q)
              => IF \A i \in 1..Len(q) : Allowed(q[i])
                 THEN /\ last'.res = "ok"
                      /\ \A i \in 1..Len(q) :
                            Has(mem'[o], q[i][1]) /\ mem'[o][q[i][1]] = q[i][2]
                 ELSE /\ last'.res = "Invalid"
                      /\ \A i \in 1..Len(q) :
                            ~Allowed(q[i]) => SameAttr(mem[o], mem'[o], q[i][1])
                      /\ UNCHANGED <<images, image_properties>>
      ]_vars

\* an assignment to an image holding a valid type and status has just
\* raised Invalid and they are still held
C5_Witness ==
    /\ last.op \in {"setitem", "update"} /\ last.res = "Invalid"
    /\ last.obj \in ImageObjs
    /\ Has(mem[last.obj], "type") /\ mem[last.obj].type = "raw"
    /\ Has(mem[last.obj], "status") /\ mem[last.obj].status = "disabled"
    /\ Has(mem[last.obj], "id")

Pair(r) == <<r.image_id, r.key>>

Disable == <<<<"status", "disabled">>>>

\* C7 as claimed: update({"status": "disabled"}) on a saved image sets its
\* status to "disabled" and returns with an updated_at later than before.
C7_UpdateRefreshesUpdatedAt ==
    [][\A o \in ImageObjs :
        (Has(mem[o], "id") /\ Update(o, Disable))
        => /\ mem'[o].status = "disabled"
           /\ Has(mem'[o], "updated_at")
           /\ Has(mem[o], "updated_at") => mem'[o].updated_at > mem[o].updated_at
      ]_vars

\* C7 amended: update({"status": "disabled"}) on a saved image sets its
\* status to "disabled" and returns with updated_at and the stored row as
\* they were; updated_at is refreshed, to the time of the flush, by the
\* next save() that finds the instance changed.
C7_UpdateLeavesUpdatedAt ==
    [][\A o \in ImageObjs :
        /\ (Has(mem[o], "id") /\ Update(o, Disable))
           => /\ mem'[o].status = "disabled"
              /\ SameAttr(mem[o], mem'[o], "updated_at")
              /\ images' = images
        /\ (/\ last'.op = "save" /\ last'.obj = o /\ last'.res = "ok"
            /\ Has(mem[o], "id") /\ mem[o] # images[mem[o].id])
           => /\ Has(mem'[o], "updated_at") /\ mem'[o].updated_at = now
              /\ images'[mem[o].id].updated_at = now
              /\ Has(mem[o], "updated_at") => mem'[o].updated_at >= mem[o].updated_at
      ]_vars

\* update({"status": "disabled"}) has just returned on a saved image whose
\* row still says "available", at a later time than the row was written
C7_Witness ==
    /\ last.op = "update" /\ last.res = "ok" /\ last.obj \in ImageObjs
    /\ Has(mem[last.obj], "id")
    /\ Has(mem[last.obj], "status")
    /\ mem[last.obj].status = "disabled"
    /\ Has(images[mem[last.obj].id], "status")
    /\ images[mem[last.obj].id].status = "available"
    /\ ~Has(mem[last.obj], "updated_at")
    /\ now > images[mem[last.obj].id].created_at

\* C8 as claimed: find(e.id) right after e.save() returns an entity equal
\* to e in every mapped field, whatever the fields of e were when saved.
C8_SaveFindRoundTrip ==
    \A o \in Objs :
        (last.op = "save" /\ last.obj = o /\ last.res = "ok")
        => /\ Has(mem[o], "id")
           /\ find(ClassOf(o), mem[o].id, FALSE).res = "ok"
           /\ find(ClassOf(o), mem[o].id, FALSE).rows = <<mem[o]>>

\* C8 amended: right after a successful e.save(), find(e.id, deleted=
\* e.deleted) returns an entity equal to e in every mapped field, so
\* find(e.id) does when e is not deleted; when e was saved with deleted
\* true, find(e.id) raises NotFound.
C8_SaveFindRoundTripLive ==
    \A o \in Objs :
        (last.op = "save" /\ last.obj = o /\ last.res = "ok")
        => /\ Has(mem[o], "id") /\ Has(mem[o], "deleted") /\ Has(mem[o], "created_at")
           /\ find(ClassOf(o), mem[o].id, mem[o].deleted).res = "ok"
           /\ find(ClassOf(o), mem[o].id, mem[o].deleted).rows = <<mem[o]>>
           /\ mem[o].deleted => find(ClassOf(o), mem[o].id, FALSE).res = "NotFound"

\* save() has just written a changed, live image back to its row
C8_Witness ==
    /\ last.op = "save" /\ last.res = "ok" /\ last.obj \in ImageObjs
    /\ Has(mem[last.obj], "id")
    /\ ~mem[last.obj].deleted
    /\ Has(mem[last.obj], "updated_at")
    /\ mem[last.obj].updated_at > mem[last.obj].created_at
    /\ ~mem[last.obj].is_public

\* C9: an image in memory always holds a type in {machine, kernel,
\* ramdisk, raw} and a status in {available, pending, disabled}, from
\* construction on.
C9_ImageAlwaysValid ==
    \A o \in ImageObjs :
        Constructed(o)
        => /\ Has(mem[o], "type")
           /\ mem[o].type \in {"machine", "kernel", "ramdisk", "raw"}
           /\ Has(mem[o], "status")
           /\ mem[o].status \in {"available", "pending", "disabled"}

\* C10 as claimed: deleted_at is unset until delete() stamps it, and once
\* stamped no later operation, a second delete() included, changes it.
C10_DeletedAtSetOnce ==
    [][\A o \in Objs :
        /\ Has(mem[o], "deleted_at") => SameAttr(mem[o], mem'[o], "deleted_at")
        /\ (~Has(mem[o], "deleted_at") /\ Has(mem'[o], "deleted_at"))
           => last'.op = "delete"
      ]_vars

\* C10 amended: deleted_at is unset until delete() is called; every
\* delete() stamps it with the current time, a second one replacing the
\* earlier stamp by one that is not earlier; save(), the queries and the
\* assignments to other fields leave it as it is.
C10_DeletedAtStampedByDelete ==
    [][\A o \in Objs :
        /\ (last'.op = "delete" /\ last'.obj = o)
           => \A fk \in BOOLEAN :
                 delete(o, fk)
                 => /\ Has(mem'[o], "deleted_at") /\ mem'[o].deleted_at = now
                    /\ Has(mem[o], "deleted_at")
                       => mem'[o].deleted_at >= mem[o].deleted_at
        /\ ~SameAttr(mem[o], mem'[o], "deleted_at")
           => last'.op = "delete" /\ last'.obj = o
      ]_vars

\* delete() has just stamped a saved image with a time later than the one
\* it was created at
C10_Witness ==
    /\ last.op = "delete" /\ last.res = "ok" /\ last.obj \in ImageObjs
    /\ Has(mem[last.obj], "deleted_at")
    /\ mem[last.obj].deleted_at = now
    /\ mem[last.obj].deleted_at > mem[last.obj].created_at
    /\ images[mem[last.obj].id].deleted_at = now
====
